---- MODULE Spec2Model ----
(***************************************************************************)
(* Model of mcp-sgf: the two tool handlers (get-sgf-info, get-sgf-diagram), *)
(* the metadata extractor parseSgfGameInfo, the move counter countMoves and *)
(* the selector resolver validateDiagramParameters / generateDiagram.       *)
(*                                                                         *)
(* Conventions                                                             *)
(*  - a JS string is a tuple of one-character strings;                     *)
(*  - a JS number that comes out of parseFloat is kept in fixed point, in  *)
(*    units of 1/Scale (19.5 is 195 when Scale = 10); move indices, move   *)
(*    counts and pixel dimensions are plain integers;                      *)
(*  - "T | undefined" is Undefined or Some(v);                             *)
(*  - an object with optional keys is a function whose DOMAIN holds the    *)
(*    keys that are set (params.moveNumber !== undefined is                *)
(*    "moveNumber" \in DOMAIN params);                                     *)
(*  - a thrown SgfError is the record Err(type, message, nums): message is *)
(*    the text of the template, nums the values interpolated into it.      *)
(***************************************************************************)
EXTENDS Integers, Sequences, FiniteSets, TLC

VARIABLES
  sgfToImage,   \* module-level renderer reference of diagramRenderer.ts
  reqs          \* the calls in flight: reqs[r] is the frame of call r

vars == <<sgfToImage, reqs>>

(***************************************************************************)
(* Bounds of the model                                                     *)
(***************************************************************************)
FracDigits == 1      \* fractional digits a parsed number keeps
MaxNodes == 4        \* nodes of a game tree
MaxIndex == 2        \* largest move index a request names
MaxMoves == 2        \* longest line of moves of a game record
SizeMargin == 2      \* board sizes tried on either side of each limit
MaxCalls == 2        \* calls of generateDiagram in flight at once

Scale == 10 ^ FracDigits

(***************************************************************************)
(* Optional values                                                         *)
(***************************************************************************)
Undefined == [defined |-> FALSE]

Some(v) == [defined |-> TRUE, value |-> v]

(***************************************************************************)
(* Strings                                                                 *)
(***************************************************************************)
Digits == {"0", "1", "2", "3", "4", "5", "6", "7", "8", "9"}

WhiteSpace == {" "}

DigitVal(c) ==
  CASE c = "0" -> 0 [] c = "1" -> 1 [] c = "2" -> 2 [] c = "3" -> 3
    [] c = "4" -> 4 [] c = "5" -> 5 [] c = "6" -> 6 [] c = "7" -> 7
    [] c = "8" -> 8 [] c = "9" -> 9

DigitChar(d) ==
  CASE d = 0 -> "0" [] d = 1 -> "1" [] d = 2 -> "2" [] d = 3 -> "3"
    [] d = 4 -> "4" [] d = 5 -> "5" [] d = 6 -> "6" [] d = 7 -> "7"
    [] d = 8 -> "8" [] d = 9 -> "9"

RECURSIVE trimStart(_)
trimStart(s) ==
  IF s # <<>> /\ Head(s) \in WhiteSpace THEN trimStart(Tail(s)) ELSE s

RECURSIVE trimEnd(_)
trimEnd(s) ==
  IF s # <<>> /\ s[Len(s)] \in WhiteSpace
    THEN trimEnd(SubSeq(s, 1, Len(s) - 1))
    ELSE s

trim(s) == trimEnd(trimStart(s))

startsWith(s, c) == s # <<>> /\ s[1] = c

includes(s, c) == \E i \in 1..Len(s) : s[i] = c

\* the longest prefix of s made of decimal digits
RECURSIVE DigitPrefix(_)
DigitPrefix(s) ==
  IF s # <<>> /\ Head(s) \in Digits
    THEN <<Head(s)>> \o DigitPrefix(Tail(s))
    ELSE <<>>

\* the value of a sequence of decimal digits (0 for the empty sequence)
RECURSIVE DecValue(_)
DecValue(ds) ==
  IF ds = <<>> THEN 0
  ELSE 10 * DecValue(SubSeq(ds, 1, Len(ds) - 1)) + DigitVal(ds[Len(ds)])

\* the fraction digits fs as a count of 1/Scale units (digits past
\* FracDigits are not representable; the inputs of the model have none)
FracValue(fs) ==
  LET kept == SubSeq(fs, 1, IF Len(fs) < FracDigits THEN Len(fs) ELSE FracDigits)
  IN  DecValue(kept) * (10 ^ (FracDigits - Len(kept)))

\* the decimal text of an integer, as String(n) writes it
RECURSIVE NatToChars(_)
NatToChars(n) ==
  IF n < 10 THEN <<DigitChar(n)>>
  ELSE NatToChars(n \div 10) \o <<DigitChar(n % 10)>>

IntToChars(n) == IF n < 0 THEN <<"-">> \o NatToChars(0 - n) ELSE NatToChars(n)

(***************************************************************************)
(* Numbers                                                                 *)
(***************************************************************************)
NaN == [nan |-> TRUE]

Num(v) == [nan |-> FALSE, val |-> v]

isNaN(x) == x.nan

\* the JS number n in fixed point
Fixed(n) == n * Scale

isInteger(x) == x % Scale = 0

Signed(s) == s # <<>> /\ Head(s) \in {"+", "-"}

Unsigned(s) == IF Signed(s) THEN Tail(s) ELSE s

Sign(s) == IF s # <<>> /\ Head(s) = "-" THEN 0 - 1 ELSE 1

\* parseInt(string): leading white space, a sign, decimal digits; the
\* result is a plain integer
parseInt(str) ==
  LET t  == trimStart(str)
      ds == DigitPrefix(Unsigned(t))
  IN  IF ds = <<>> THEN NaN ELSE Num(Sign(t) * DecValue(ds))

\* parseFloat(string): leading white space, a sign, digits, a fraction;
\* the result is in fixed point
parseFloat(str) ==
  LET t    == trimStart(str)
      u    == Unsigned(t)
      ds   == DigitPrefix(u)
      rest == SubSeq(u, Len(ds) + 1, Len(u))
      fs   == IF startsWith(rest, ".") THEN DigitPrefix(Tail(rest)) ELSE <<>>
  IN  IF ds = <<>> /\ fs = <<>> THEN NaN
      ELSE Num(Sign(t) * (DecValue(ds) * Scale + FracValue(fs)))

(***************************************************************************)
(* Errors                                                                  *)
(***************************************************************************)
INVALID_FORMAT == "INVALID_FORMAT"

UNSUPPORTED_GAME == "UNSUPPORTED_GAME"

PARSING_ERROR == "PARSING_ERROR"

INVALID_PARAMETERS == "INVALID_PARAMETERS"

FILE_TOO_LARGE == "FILE_TOO_LARGE"

UNEXPECTED_ERROR == "UNEXPECTED_ERROR"

SgfErrorType ==
  {INVALID_FORMAT, UNSUPPORTED_GAME, PARSING_ERROR, INVALID_PARAMETERS,
   FILE_TOO_LARGE}

\* new SgfError(type, message): nums are the values the message interpolates
Err(type, message, nums) == [type |-> type, message |-> message, nums |-> nums]

\* what a function hands back: a value, or a thrown SgfError
Return(v) == [threw |-> FALSE, value |-> v]

Throw(e) == [threw |-> TRUE, error |-> e]

(***************************************************************************)
(* Game trees, as @sabaki/sgf hands them over                              *)
(*   tree.data[i]   the properties of node i: tag -> list of raw values    *)
(*   tree.parent[i] the parent of node i, 0 for the root (node 1)          *)
(* the children of a node are listed in the order of their ids             *)
(***************************************************************************)
Root == 1

NodeIds(tree) == [i \in 1..Len(tree.data) |-> i]

\* variant: only the first child (the main line) is followed
children_MainLine(tree, node) ==
  LET cs == SelectSeq([i \in 1..Len(tree.data) |-> i], LAMBDA j : tree.parent[j] = node)
  IN  IF cs = <<>> THEN cs ELSE <<cs[1]>>

children(tree, node) ==
  SelectSeq(NodeIds(tree), LAMBDA j : tree.parent[j] = node)

RECURSIVE traverseNode(_, _), traverseChildren(_, _)
\* variant: a node with setup stones (AB, AW) is counted as well
traverseNode_CountsSetup(tree, node) ==
  LET properties == tree.data[node]
  IN  (IF DOMAIN properties \cap {"B", "W", "AB", "AW"} # {} THEN 1 ELSE 0)
      + traverseChildren(tree, children(tree, node))

\* the increments of moveCount made by traverseNode(node)
traverseNode(tree, node) ==
  LET properties == tree.data[node]
  IN  (IF "B" \in DOMAIN properties \/ "W" \in DOMAIN properties THEN 1 ELSE 0)
      + traverseChildren(tree, children(tree, node))

traverseChildren(tree, cs) ==
  IF cs = <<>> THEN 0
  ELSE traverseNode(tree, Head(cs)) + traverseChildren(tree, Tail(cs))

\* variant: the traversal starts at the children of the root
countMoves_SkipRoot(gameTree) == traverseChildren(gameTree, children(gameTree, Root))

countMoves(gameTree) == traverseNode(gameTree, Root)

(***************************************************************************)
(* SGF text handed to the tools                                            *)
(*   content.text    the characters that decide the structural checks      *)
(*   content.pad     the length of a further run of ordinary characters    *)
(*                   inside the text (only its byte count matters)         *)
(*   content.sabaki  what parse() of @sabaki/sgf makes of the text: it     *)
(*                   throws, or it returns the list of game trees          *)
(***************************************************************************)
byteLength(sgfContent) == Len(sgfContent.text) + sgfContent.pad

trimmed(sgfContent) == [sgfContent EXCEPT !.text = trim(@)]

parse(sgfContent) == sgfContent.sabaki

MAX_FILE_SIZE == 100 * 1024

MinBoardSize == 1

MaxBoardSize == 361

DefaultBoardSize == 19

StringTags ==
  {"GN", "GC", "EV", "RO", "DT", "PC", "SO", "US", "AN", "CP", "PB", "PW",
   "BR", "WR", "BT", "WT", "RU", "OT", "RE", "AP", "CA", "VW"}

NumericTags == {"SZ", "HA", "KM", "TM", "FF", "GM", "ST"}

SZWarning == "Board size (SZ) not specified, assuming 19x19"

FFWarning == "File format (FF) not specified"

\* !value for a string | undefined
falsyString(v) == ~v.defined \/ v.value = <<>>

\* variant: the test is inverted
falsyNumber_Inverted(v) == v.defined /\ v.value # 0

\* !value for a number | undefined (a NaN is never stored)
falsyNumber(v) == ~v.defined \/ v.value = 0

getPropertyValue(properties, key) ==
  IF key \notin DOMAIN properties \/ properties[key] = <<>>
    THEN Undefined
    ELSE Some(properties[key][1])

\* variant: a value that is no number is stored as 0
getNumericPropertyValue_NaNIsZero(properties, key) ==
  IF key \notin DOMAIN properties \/ properties[key] = <<>> \/ properties[key][1] = <<>>
    THEN [defined |-> FALSE]
    ELSE [defined |-> TRUE,
          value |-> IF parseFloat(properties[key][1]).nan THEN 0
                    ELSE parseFloat(properties[key][1]).val]

getNumericPropertyValue(properties, key) ==
  LET value == getPropertyValue(properties, key)
  IN  IF falsyString(value) THEN Undefined
      ELSE LET parsed == parseFloat(value.value)
           IN  IF isNaN(parsed) THEN Undefined ELSE Some(parsed.val)

\* parseInt(gameType) !== 1
gameTypeIsNotGo(gameType) ==
  LET p == parseInt(gameType) IN isNaN(p) \/ p.val # 1

\* variant: the upper limit itself is excluded
boardSizeOutOfRange_Exclusive(boardSize) ==
  boardSize < MinBoardSize * Scale \/ boardSize >= MaxBoardSize * Scale

\* boardSize < 1 || boardSize > 361
boardSizeOutOfRange(boardSize) ==
  boardSize < Fixed(MinBoardSize) \/ boardSize > Fixed(MaxBoardSize)

extractGameInfo(properties) ==
  [k \in StringTags \cup NumericTags |->
     IF k \in NumericTags THEN getNumericPropertyValue(properties, k)
                          ELSE getPropertyValue(properties, k)]

parseSgfGameInfo(sgfContent) ==
  IF byteLength(sgfContent) > MAX_FILE_SIZE
    THEN Throw(Err(FILE_TOO_LARGE, "SGF file exceeds maximum size of {0} bytes",
                   <<MAX_FILE_SIZE>>))
  ELSE IF parse(sgfContent).threw
    THEN Throw(Err(PARSING_ERROR, "Failed to parse SGF: {message}", <<>>))
  ELSE IF parse(sgfContent).gameTrees = <<>>
    THEN Throw(Err(INVALID_FORMAT, "Invalid SGF format: empty game tree", <<>>))
  ELSE
    LET gameTree   == parse(sgfContent).gameTrees[1]
        properties == gameTree.data[Root]
        gameType   == getPropertyValue(properties, "GM")
        gameInfo   == extractGameInfo(properties)
        totalMoves == countMoves(gameTree)
        boardSize  == IF gameInfo.SZ.defined THEN gameInfo.SZ.value
                                             ELSE Fixed(DefaultBoardSize)
        warnings   == (IF falsyNumber(gameInfo.SZ) THEN <<SZWarning>> ELSE <<>>)
                      \o (IF falsyNumber(gameInfo.FF) THEN <<FFWarning>> ELSE <<>>)
    IN  IF ~falsyString(gameType) /\ gameTypeIsNotGo(gameType.value)
          THEN Throw(Err(UNSUPPORTED_GAME,
                         "Unsupported game type: {gameType}. Only Go (GM[1]) is supported.",
                         <<>>))
        ELSE IF boardSizeOutOfRange(boardSize)
          THEN Throw(Err(INVALID_PARAMETERS,
                         "Invalid board size: {0}. Must be between 1 and 361.",
                         <<boardSize>>))
        ELSE Return([gameInfo          |-> gameInfo,
                     totalMoves        |-> totalMoves,
                     boardSize         |-> boardSize,
                     hasValidStructure |-> TRUE,
                     warnings          |-> IF warnings # <<>> THEN Some(warnings)
                                                              ELSE Undefined])

validateSgfFormat(sgfContent) ==
  LET t == trim(sgfContent.text)
  IN  startsWith(t, "(") /\ includes(t, "[") /\ includes(t, "]")

(***************************************************************************)
(* Selector resolver (diagramRenderer.ts)                                  *)
(***************************************************************************)
MinDimension == 100

MaxDimension == 2000

DefaultDimension == 600

Has(obj, key) == key \in DOMAIN obj

\* variant: the default replaces what the caller supplied
OrElse_DefaultWins(obj, key, dflt) == dflt

\* obj.key ?? dflt
OrElse(obj, key, dflt) == IF Has(obj, key) THEN obj[key] ELSE dflt

MoveOutOfRangeMsg == "Move number {0} is out of range (1-{1})"

StartOutOfRangeMsg == "Start move {0} is out of range (1-{1})"

EndOutOfRangeMsg == "End move {0} is out of range (1-{1})"

StartAfterEndMsg == "Start move {0} cannot be greater than end move {1}"

BoardTooLargeMsg == "Board size {0} exceeds maximum supported size of {1}"

WidthMsg == "Width {0} is out of range (100-2000)"

HeightMsg == "Height {0} is out of range (100-2000)"

\* variant: no upper bound
indexOutOfRange_NoUpperBound(index, totalMoves) == index < 1

\* index < 1 || index > totalMoves
indexOutOfRange(index, totalMoves) == index < 1 \/ index > totalMoves

\* variant: the limits themselves are turned down
dimensionOutOfRange_Exclusive(d) == d <= MinDimension \/ d >= MaxDimension

dimensionOutOfRange(d) == d < MinDimension \/ d > MaxDimension

validateDiagramParameters(params, totalMoves, boardSize) ==
  LET maxBoardSize == OrElse(params, "maxBoardSize", MaxBoardSize)
  IN  IF boardSize > Fixed(maxBoardSize)
        THEN Throw(Err(INVALID_PARAMETERS, BoardTooLargeMsg, <<boardSize, maxBoardSize>>))
      ELSE IF Has(params, "moveNumber") /\ indexOutOfRange(params.moveNumber, totalMoves)
        THEN Throw(Err(INVALID_PARAMETERS, MoveOutOfRangeMsg,
                       <<params.moveNumber, totalMoves>>))
      ELSE IF Has(params, "startMove") /\ Has(params, "endMove")
              /\ indexOutOfRange(params.startMove, totalMoves)
        THEN Throw(Err(INVALID_PARAMETERS, StartOutOfRangeMsg,
                       <<params.startMove, totalMoves>>))
      ELSE IF Has(params, "startMove") /\ Has(params, "endMove")
              /\ indexOutOfRange(params.endMove, totalMoves)
        THEN Throw(Err(INVALID_PARAMETERS, EndOutOfRangeMsg,
                       <<params.endMove, totalMoves>>))
      ELSE IF Has(params, "startMove") /\ Has(params, "endMove")
              /\ params.startMove > params.endMove
        THEN Throw(Err(INVALID_PARAMETERS, StartAfterEndMsg,
                       <<params.startMove, params.endMove>>))
      ELSE IF Has(params, "width") /\ dimensionOutOfRange(params.width)
        THEN Throw(Err(INVALID_PARAMETERS, WidthMsg, <<params.width>>))
      ELSE IF Has(params, "height") /\ dimensionOutOfRange(params.height)
        THEN Throw(Err(INVALID_PARAMETERS, HeightMsg, <<params.height>>))
      ELSE Return(TRUE)

\* the options object generateDiagram hands to the renderer
\* variant: the 1-based index is handed to the renderer as it is
rendererOptions_NoConversion(sgfContent, params) ==
  LET base == [sgf         |-> sgfContent,
               width       |-> OrElse(params, "width", DefaultDimension),
               height      |-> OrElse(params, "height", DefaultDimension),
               coordLabels |-> OrElse(params, "coordLabels", TRUE) # FALSE,
               moveNumbers |-> OrElse(params, "moveNumbers", TRUE) # FALSE,
               theme       |-> OrElse(params, "theme", "classic")]
  IN  IF Has(params, "moveNumber")
        THEN base @@ ("moveNumber" :> params.moveNumber)
      ELSE IF Has(params, "endMove")
        THEN base @@ ("moveNumber" :> params.endMove)
      ELSE base

rendererOptions(sgfContent, params) ==
  LET base == [sgf         |-> sgfContent,
               width       |-> OrElse(params, "width", DefaultDimension),
               height      |-> OrElse(params, "height", DefaultDimension),
               coordLabels |-> OrElse(params, "coordLabels", TRUE) # FALSE,
               moveNumbers |-> OrElse(params, "moveNumbers", TRUE) # FALSE,
               theme       |-> OrElse(params, "theme", "classic")]
  IN  IF Has(params, "moveNumber")
        THEN base @@ ("moveNumber" :> params.moveNumber - 1)
      ELSE IF Has(params, "endMove")
        THEN base @@ ("moveNumber" :> params.endMove - 1)
      ELSE base

\* movesCovered when the selector is a single move
singleMoveCovered(moveNumber) == moveNumber

movesCoveredOf(params, totalMoves) ==
  IF Has(params, "moveNumber") THEN singleMoveCovered(params.moveNumber)
  ELSE IF Has(params, "startMove") /\ Has(params, "endMove")
    THEN params.endMove - params.startMove + 1
  ELSE totalMoves

mimeTypeOf(params) ==
  IF Has(params, "format") /\ params.format = "svg" THEN "image/svg+xml"
                                                    ELSE "image/png"

\* the DiagramResult generateDiagram returns once the renderer has resolved
diagramResult(params, options, totalMoves, boardSize) ==
  [imageData    |-> "base64(imageBuffer)",
   mimeType     |-> mimeTypeOf(params),
   width        |-> options.width,
   height       |-> options.height,
   movesCovered |-> movesCoveredOf(params, totalMoves),
   boardSize    |-> boardSize]

(***************************************************************************)
(* Tool handlers: the synchronous part                                     *)
(***************************************************************************)
SelectorKeys == {"moveNumber", "startMove", "endMove"}

CopiedKeys ==
  SelectorKeys \cup {"width", "height", "coordLabels", "moveNumbers", "theme"}

\* variant: the error result keeps a metadata payload
errorResult_WithMetadata(e) ==
  [content  |-> <<[type |-> "text", text |-> [success |-> FALSE, error |-> e]]>>,
   isError  |-> TRUE,
   metadata |-> [boardSize |-> 19 * Scale]]

\* a CallToolResult that reports a thrown error
errorResult(e) ==
  [content |-> <<[type |-> "text", text |-> [success |-> FALSE, error |-> e]]>>,
   isError |-> TRUE]

\* a JavaScript value that is no plain object is the record of its type;
\* null and undefined have no properties to read
isObject(v) == ~Has(v, "typeof")

nullish(v) == Has(v, "typeof") /\ v.typeof \in {"null", "undefined"}

TypeErrorMsg == "Cannot read properties of {args} (reading 'sgfContent')"

\* !args.sgfContent || typeof args.sgfContent !== 'string'
missingContent(args) ==
  \/ ~Has(args, "sgfContent")
  \/ args.sgfContent.typeof # "string"
  \/ byteLength(args.sgfContent) = 0

\* the diagramParams object handleGetSgfDiagram builds from its arguments
diagramParams(args) ==
  [k \in (DOMAIN args) \cap CopiedKeys |-> args[k]]
    @@ [format |-> OrElse(args, "format", "png"), maxBoardSize |-> MaxBoardSize]

\* variant: the exclusion of moveNumber and a range is not checked
combinationError_NoExclusion(args) ==
  IF "startMove" \in DOMAIN args /\ "endMove" \notin DOMAIN args
    THEN [threw |-> TRUE,
          error |-> [type |-> "INVALID_PARAMETERS",
                     message |-> "startMove requires endMove to be specified for range display.",
                     nums |-> <<>>]]
  ELSE IF "endMove" \in DOMAIN args /\ "startMove" \notin DOMAIN args
    THEN [threw |-> TRUE,
          error |-> [type |-> "INVALID_PARAMETERS",
                     message |-> "endMove requires startMove to be specified for range display.",
                     nums |-> <<>>]]
  ELSE [threw |-> FALSE, value |-> TRUE]

\* the "Validate parameter combinations" block of handleGetSgfDiagram
combinationError(args) ==
  IF Has(args, "moveNumber") /\ (Has(args, "startMove") \/ Has(args, "endMove"))
    THEN Throw(Err(INVALID_PARAMETERS,
                   "Cannot specify both moveNumber and move range (startMove/endMove). Use one or the other.",
                   <<>>))
  ELSE IF Has(args, "startMove") /\ ~Has(args, "endMove")
    THEN Throw(Err(INVALID_PARAMETERS,
                   "startMove requires endMove to be specified for range display.", <<>>))
  ELSE IF Has(args, "endMove") /\ ~Has(args, "startMove")
    THEN Throw(Err(INVALID_PARAMETERS,
                   "endMove requires startMove to be specified for range display.", <<>>))
  ELSE Return(TRUE)

MissingContentMsg == "Missing or invalid sgfContent parameter. Must be a non-empty string."

EmptyContentMsg == "SGF content cannot be empty."

InvalidFormatMsg ==
  "Invalid SGF format. SGF files must start with \"(\" and end with \")\" and contain at least one property."

\* handleGetSgfDiagram up to its call of generateDiagram: the error it
\* throws, or the arguments of that call
diagramCall(args) ==
  IF nullish(args)
    THEN Throw(Err(UNEXPECTED_ERROR, TypeErrorMsg, <<>>))
  ELSE IF missingContent(args)
    THEN Throw(Err(INVALID_PARAMETERS, MissingContentMsg, <<>>))
  ELSE
    LET sgfContent  == trimmed(args.sgfContent)
        parseResult == parseSgfGameInfo(sgfContent)
    IN  IF byteLength(sgfContent) = 0
          THEN Throw(Err(INVALID_PARAMETERS, EmptyContentMsg, <<>>))
        ELSE IF ~validateSgfFormat(sgfContent)
          THEN Throw(Err(INVALID_FORMAT, InvalidFormatMsg, <<>>))
        ELSE IF parseResult.threw THEN parseResult
        ELSE IF combinationError(args).threw THEN combinationError(args)
        ELSE Return([sgfContent |-> sgfContent,
                     params     |-> diagramParams(args),
                     totalMoves |-> parseResult.value.totalMoves,
                     boardSize  |-> parseResult.value.boardSize])

\* the CallToolResult of a diagram request whose generateDiagram returned
diagramToolResult(params, res) ==
  [content  |-> <<[type |-> "image", data |-> res.imageData, mimeType |-> res.mimeType]>>,
   metadata |-> [mimeType     |-> res.mimeType,
                 width        |-> res.width,
                 height       |-> res.height,
                 movesCovered |-> res.movesCovered,
                 boardSize    |-> res.boardSize,
                 parameters   |-> params]]

(***************************************************************************)
(* Argument validation of get-sgf-info (validation.ts)                     *)
(***************************************************************************)
UpperCase ==
  {"A", "B", "C", "D", "E", "F", "G", "H", "I", "J", "K", "L", "M", "N", "O",
   "P", "Q", "R", "S", "T", "U", "V", "W", "X", "Y", "Z"}

LineTerminators == {"\n", "\r"}

ControlChars == {"\f"}

MaxSchemaLength == 10 * 1024 * 1024

endsWith(s, c) == s # <<>> /\ s[Len(s)] = c

\* a "]" on the same line, at or after position i
closesFrom(s, i) ==
  \E j \in i..Len(s) :
    s[j] = "]" /\ \A k \in i..(j - 1) : s[k] \notin LineTerminators

\* /;[A-Z]{1,2}\[.*?\]/.test(content)
propertyPattern(s) ==
  \E i \in 1..Len(s) :
    /\ s[i] = ";"
    /\ \/ /\ i + 2 <= Len(s)
          /\ s[i + 1] \in UpperCase /\ s[i + 2] = "["
          /\ closesFrom(s, i + 3)
       \/ /\ i + 3 <= Len(s)
          /\ s[i + 1] \in UpperCase /\ s[i + 2] \in UpperCase /\ s[i + 3] = "["
          /\ closesFrom(s, i + 4)

sanitizeInput(input) ==
  [input EXCEPT !.text = SelectSeq(@, LAMBDA c : c \notin ControlChars)]

\* sgfContentSchema.safeParse(content), then the error type validateSgfContent
\* derives from the first issue
validateSgfContent(content) ==
  IF content.typeof = "undefined"
    THEN Throw(Err(INVALID_PARAMETERS, "SGF content is required", <<>>))
  ELSE IF content.typeof # "string"
    THEN Throw(Err(INVALID_PARAMETERS, "SGF content must be a string", <<>>))
  ELSE IF byteLength(content) < 1
    THEN Throw(Err(INVALID_PARAMETERS, "SGF content cannot be empty", <<>>))
  ELSE IF byteLength(content) > MaxSchemaLength
    THEN Throw(Err(FILE_TOO_LARGE, "SGF file too large (max 10MB)", <<>>))
  ELSE IF ~(startsWith(trim(content.text), "(") /\ endsWith(trim(content.text), ")"))
    THEN Throw(Err(INVALID_FORMAT, "SGF content must start with \"(\" and end with \")\"", <<>>))
  ELSE IF ~propertyPattern(content.text)
    THEN Throw(Err(INVALID_FORMAT, "SGF content must contain at least one valid property", <<>>))
  ELSE Return(content)

validateGetSgfInfoArgs(args) ==
  IF ~isObject(args)
    THEN Throw(Err(INVALID_PARAMETERS, "Arguments must be an object", <<>>))
  ELSE IF ~Has(args, "sgfContent")
    THEN Throw(Err(INVALID_PARAMETERS, "Missing required parameter: sgfContent", <<>>))
  ELSE IF validateSgfContent(args.sgfContent).threw
    THEN validateSgfContent(args.sgfContent)
  ELSE IF (DOMAIN args) \ {"sgfContent"} # {}
    THEN Throw(Err(INVALID_PARAMETERS, "Unexpected properties: {extraKeys}", <<>>))
  ELSE Return([sgfContent |-> args.sgfContent])

\* the CallToolResult of an info request whose parse succeeded
infoToolResult(parseResult) ==
  [content |->
     <<[type |-> "text",
        text |-> [success |-> TRUE,
                  data |-> [gameInfo |-> parseResult.gameInfo,
                            metadata |-> [totalMoves        |-> parseResult.totalMoves,
                                          boardSize         |-> parseResult.boardSize,
                                          hasValidStructure |-> parseResult.hasValidStructure],
                            warnings |-> parseResult.warnings]]]>>]

handleGetSgfInfo(args) ==
  LET validation == validateGetSgfInfoArgs(args)
      sgfContent == sanitizeInput(validation.value.sgfContent)
      parseResult == parseSgfGameInfo(sgfContent)
  IN  IF validation.threw THEN errorResult(validation.error)
      ELSE IF ~validateSgfFormat(sgfContent)
        THEN errorResult(Err(INVALID_FORMAT, InvalidFormatMsg, <<>>))
      ELSE IF parseResult.threw THEN errorResult(parseResult.error)
      ELSE infoToolResult(parseResult.value)

(***************************************************************************)
(* Call frames                                                             *)
(*   op      the function called, "none" while the slot is free            *)
(*   pc      idle, importing (await import('sgf-to-image')), initialized   *)
(*           (await initializeSgfToImage()), rendering (await renderer()), *)
(*           done                                                          *)
(*   args    the arguments of the call                                     *)
(*   call    the arguments of the generateDiagram call in progress         *)
(*   renderer, options   locals of generateDiagram                         *)
(*   loads, renders      library loads and renderer calls made by the call *)
(*   result  what the call returned (or threw), once pc is done            *)
(***************************************************************************)
Null == "null"

IdleFrame ==
  [op |-> "none", pc |-> "idle", args |-> <<>>, call |-> <<>>,
   renderer |-> Null, options |-> <<>>, loads |-> 0, renders |-> 0,
   result |-> <<>>]

Idle(r) == reqs[r].pc = "idle"

\* variant: the handler lets the error of generateDiagram escape
thrown_Uncaught(f, e) ==
  [f EXCEPT !.pc = "done", !.result = [threw |-> TRUE, error |-> e]]

\* what the caller of frame f sees when generateDiagram throws e
thrown(f, e) ==
  [f EXCEPT !.pc = "done",
            !.result = IF f.op = "handleGetSgfDiagram" THEN errorResult(e)
                                                      ELSE Throw(e)]

\* what the caller of frame f sees when generateDiagram returns res
returned(f, res) ==
  [f EXCEPT !.pc = "done",
            !.result = IF f.op = "handleGetSgfDiagram"
                         THEN diagramToolResult(f.call.params, res)
                         ELSE Return(res)]

\* generateDiagram from its entry to its first await: validation, then
\* initializeSgfToImage, which returns the loaded renderer or starts the import
\* variant: the library is loaded before the parameters are validated
enterGenerateDiagram_LoadFirst(f) ==
  IF sgfToImage = Null
    THEN [f EXCEPT !.pc = "importing", !.loads = @ + 1]
    ELSE [f EXCEPT !.pc = "initialized", !.renderer = sgfToImage]

enterGenerateDiagram(f) ==
  LET v == validateDiagramParameters(f.call.params, f.call.totalMoves, f.call.boardSize)
  IN  IF v.threw THEN thrown(f, v.error)
      ELSE IF sgfToImage = Null
        THEN [f EXCEPT !.pc = "importing", !.loads = @ + 1]
      ELSE [f EXCEPT !.pc = "initialized", !.renderer = sgfToImage]

(***************************************************************************)
(* Operations                                                              *)
(***************************************************************************)
\* handleGetSgfDiagram(args), up to its first await or to its return
HandleGetSgfDiagram(r, args) ==
  /\ Idle(r)
  /\ LET f == [IdleFrame EXCEPT !.op = "handleGetSgfDiagram", !.args = args]
         c == diagramCall(args)
     IN  reqs' = [reqs EXCEPT ![r] =
                    IF c.threw
                      THEN [f EXCEPT !.pc = "done", !.result = errorResult(c.error)]
                      ELSE enterGenerateDiagram([f EXCEPT !.call = c.value])]
  /\ UNCHANGED sgfToImage

\* generateDiagram(sgfContent, params, totalMoves, boardSize) called directly
GenerateDiagram(r, call) ==
  /\ Idle(r)
  /\ reqs' = [reqs EXCEPT ![r] =
                enterGenerateDiagram([IdleFrame EXCEPT !.op = "generateDiagram",
                                                       !.args = call,
                                                       !.call = call])]
  /\ UNCHANGED sgfToImage

\* the function initializeSgfToImage finds in the imported module, Null if none
rendererOf(imported) ==
  IF imported.default = "nestedFunction" \/ imported.default = "function"
    THEN "default"
  ELSE IF imported.convertSgfToImage THEN "convertSgfToImage"
  ELSE IF imported.renderDiagram THEN "renderDiagram"
  ELSE Null

LoadFailedMsg == "Failed to load sgf-to-image library"

RenderFailedMsg == "Failed to generate diagram: {message}"

\* variant: a failed load clears the module-level reference
ImportSettles_ResetOnFailure(r, imported) ==
  /\ reqs[r].pc = "importing"
  /\ IF imported.threw \/ rendererOf(imported) = Null
       THEN /\ reqs' = [reqs EXCEPT ![r] =
                          thrown(reqs[r], Err(PARSING_ERROR, LoadFailedMsg, <<>>))]
            /\ sgfToImage' = Null
       ELSE /\ sgfToImage' = rendererOf(imported)
            /\ reqs' = [reqs EXCEPT ![r].pc = "initialized",
                                    ![r].renderer = rendererOf(imported)]

\* await import('sgf-to-image') settles: the import threw, or it resolved
\* to a module of the given shape
ImportSettles(r, imported) ==
  /\ reqs[r].pc = "importing"
  /\ IF imported.threw \/ rendererOf(imported) = Null
       THEN /\ reqs' = [reqs EXCEPT ![r] =
                          thrown(reqs[r], Err(PARSING_ERROR, LoadFailedMsg, <<>>))]
            /\ UNCHANGED sgfToImage
       ELSE /\ sgfToImage' = rendererOf(imported)
            /\ reqs' = [reqs EXCEPT ![r].pc = "initialized",
                                    ![r].renderer = rendererOf(imported)]

\* generateDiagram resumes after await initializeSgfToImage(): it builds the
\* options and calls the renderer
CallRenderer(r) ==
  /\ reqs[r].pc = "initialized"
  /\ reqs' = [reqs EXCEPT ![r].pc = "rendering",
                          ![r].renders = @ + 1,
                          ![r].options = rendererOptions(reqs[r].call.sgfContent,
                                                         reqs[r].call.params)]
  /\ UNCHANGED sgfToImage

\* await renderer(options) settles; the rest of generateDiagram and of the
\* handler touches no shared state and is part of this step
\* variant: the result is built from the call that is rendering elsewhere
RendererSettles_SharedCall(r, resolved) ==
  /\ reqs[r].pc = "rendering"
  /\ LET f      == reqs[r]
         others == {q \in DOMAIN reqs : q # r /\ reqs[q].pc = "rendering"}
         g      == IF others = {} THEN f ELSE reqs[CHOOSE q \in others : TRUE]
     IN  reqs' = [reqs EXCEPT ![r] =
                    IF resolved
                      THEN returned(f, diagramResult(g.call.params, g.options,
                                                     g.call.totalMoves, g.call.boardSize))
                      ELSE thrown(f, Err(PARSING_ERROR, RenderFailedMsg, <<>>))]
  /\ UNCHANGED sgfToImage

RendererSettles(r, resolved) ==
  /\ reqs[r].pc = "rendering"
  /\ LET f == reqs[r]
     IN  reqs' = [reqs EXCEPT ![r] =
                    IF resolved
                      THEN returned(f, diagramResult(f.call.params, f.options,
                                                     f.call.totalMoves, f.call.boardSize))
                      ELSE thrown(f, Err(PARSING_ERROR, RenderFailedMsg, <<>>))]
  /\ UNCHANGED sgfToImage

\* handleGetSgfInfo(args): synchronous
HandleGetSgfInfo(r, args) ==
  /\ Idle(r)
  /\ reqs' = [reqs EXCEPT ![r] =
                [IdleFrame EXCEPT !.op = "handleGetSgfInfo", !.args = args,
                                  !.pc = "done", !.result = handleGetSgfInfo(args)]]
  /\ UNCHANGED sgfToImage

\* parseSgfGameInfo(sgfContent)
ParseSgfGameInfo(r, sgfContent) ==
  /\ Idle(r)
  /\ reqs' = [reqs EXCEPT ![r] =
                [IdleFrame EXCEPT !.op = "parseSgfGameInfo", !.args = sgfContent,
                                  !.pc = "done", !.result = parseSgfGameInfo(sgfContent)]]
  /\ UNCHANGED sgfToImage

\* countMoves(gameTree)
CountMoves(r, gameTree) ==
  /\ Idle(r)
  /\ reqs' = [reqs EXCEPT ![r] =
                [IdleFrame EXCEPT !.op = "countMoves", !.args = gameTree,
                                  !.pc = "done", !.result = Return(countMoves(gameTree))]]
  /\ UNCHANGED sgfToImage

\* the caller has taken the result; the slot is free for the next call
Deliver(r) ==
  /\ reqs[r].pc = "done"
  /\ reqs' = [reqs EXCEPT ![r] = IdleFrame]
  /\ UNCHANGED sgfToImage

(***************************************************************************)
(* Inputs                                                                  *)
(***************************************************************************)
EmptyObject == [k \in {} |-> 0]

\* the objects that set key to a value of V, or leave it unset
Option(key, V) == {EmptyObject} \cup {key :> v : v \in V}

\* the objects that set any of the keys to values of V
Objects(keys, V) == UNION {[K -> V] : K \in SUBSET keys}

Str(text, pad, sabaki) ==
  [typeof |-> "string", text |-> text, pad |-> pad, sabaki |-> sabaki]

NotAString == [typeof |-> "number"]

NullValue == [typeof |-> "null"]

UndefinedValue == [typeof |-> "undefined"]

Parsed(gameTrees) == [threw |-> FALSE, gameTrees |-> gameTrees]

ParseThrows == [threw |-> TRUE, gameTrees |-> <<>>]

GoodText == <<"(", ";", "A", "[", "]", ")">>

BMove == [B |-> << <<"d", "d">> >>]

WMove == [W |-> << <<"p", "d">> >>]

Setup(tag) == tag :> << <<"d", "d">>, <<"p", "p">> >>

\* a root followed by a single line of n alternating moves
Chain(rootProps, n) ==
  [data   |-> <<rootProps>> \o [i \in 1..n |-> IF i % 2 = 1 THEN BMove ELSE WMove],
   parent |-> [i \in 1..(n + 1) |-> i - 1]]

GoRoot == [FF |-> << <<"4">> >>, GM |-> << <<"1">> >>, SZ |-> << <<"1", "9">> >>]

\* (;FF[4]GM[1]SZ[19];B[dd](;W[pd])(;W[dp]))
VariationTree ==
  [data |-> <<GoRoot, BMove, WMove, WMove>>, parent |-> <<0, 1, 2, 2>>]

GoodContent(n) == Str(GoodText, 0, Parsed(<<Chain(GoRoot, n)>>))

ChessContent ==
  Str(GoodText, 0, Parsed(<<Chain([FF |-> << <<"4">> >>, GM |-> << <<"2">> >>], 1)>>))

BadContents ==
  {NotAString,
   Str(<<>>, 0, ParseThrows),
   Str(<<" ">>, 0, ParseThrows),
   Str(<<"k">>, 0, ParseThrows),
   Str(<<"(", ";", "A", "[", "]">>, 0, ParseThrows),
   Str(GoodText, 0, Parsed(<<>>)),
   Str(GoodText, MAX_FILE_SIZE, Parsed(<<Chain(GoRoot, 1)>>)),
   ChessContent}

DiagramContents ==
  {GoodContent(n) : n \in 0..MaxMoves}
    \cup {Str(GoodText, 0, Parsed(<<VariationTree>>))}
    \cup BadContents

SelectorObjects == Objects(SelectorKeys, 0..MaxIndex)

OptionObjects ==
  {w @@ f :
     w \in Option("width", {MinDimension - 1}),
     f \in Option("format", {"svg"})}

\* arguments of get-sgf-diagram
DiagramArgs ==
  {c @@ sel @@ o :
     c \in Option("sgfContent", DiagramContents),
     sel \in SelectorObjects,
     o \in OptionObjects}

\* calls of generateDiagram that do not come from the handler
GenerateCalls ==
  {[sgfContent |-> GoodContent(0), params |-> sel @@ o, totalMoves |-> n, boardSize |-> b] :
     sel \in SelectorObjects,
     o \in OptionObjects,
     n \in 0..MaxMoves,
     b \in {Fixed(DefaultBoardSize), Fixed(MaxBoardSize + 1)}}

Module(default, convert, render) ==
  [threw |-> FALSE, default |-> default, convertSgfToImage |-> convert,
   renderDiagram |-> render]

ImportThrows ==
  [threw |-> TRUE, default |-> "absent", convertSgfToImage |-> FALSE,
   renderDiagram |-> FALSE]

ModuleShapes ==
  {Module(d, c, x) : d \in {"absent", "function", "nestedFunction", "other"},
                     c \in BOOLEAN, x \in BOOLEAN}
    \cup {ImportThrows}

\* the outcomes of the import that Spec distinguishes
LoadOutcomes == {Module("function", FALSE, FALSE), ImportThrows}

(***************************************************************************)
(* Specification of the diagram tool and of the selector resolver          *)
(***************************************************************************)
Slots == {1}

Init ==
  /\ sgfToImage = Null
  /\ reqs = [r \in Slots |-> IdleFrame]

Rendering(r) ==
  \/ \E imported \in LoadOutcomes : ImportSettles(r, imported)
  \/ CallRenderer(r)
  \/ \E resolved \in BOOLEAN : RendererSettles(r, resolved)

Next ==
  \E r \in DOMAIN reqs :
    \/ \E args \in DiagramArgs : HandleGetSgfDiagram(r, args)
    \/ \E call \in GenerateCalls : GenerateDiagram(r, call)
    \/ Rendering(r)
    \/ Deliver(r)

Spec == Init /\ [][Next]_vars

TypeOK ==
  /\ sgfToImage \in {Null, "default", "convertSgfToImage", "renderDiagram"}
  /\ \A r \in DOMAIN reqs :
       reqs[r].pc \in {"idle", "importing", "initialized", "rendering", "done"}

(***************************************************************************)
(* Vocabulary of the properties                                            *)
(***************************************************************************)
Frames == {reqs[r] : r \in DOMAIN reqs}

Done(f) == f.pc = "done"

IsToolError(res) == Has(res, "isError") /\ res.isError

ToolError(res) == res.content[1].text.error

HasImage(res) == \E i \in 1..Len(res.content) : res.content[i].type = "image"

\* the error a finished call reports, whatever the operation
Failed(f) ==
  IF f.op \in {"handleGetSgfDiagram", "handleGetSgfInfo"} THEN IsToolError(f.result)
                                                          ELSE f.result.threw

ErrorOf(f) ==
  IF f.op \in {"handleGetSgfDiagram", "handleGetSgfInfo"} THEN ToolError(f.result)
                                                          ELSE f.result.error

\* the selector of a call of the diagram tool or of generateDiagram
SelectorOf(f) ==
  LET p == IF f.op = "generateDiagram" THEN f.args.params ELSE f.args
  IN  [k \in (DOMAIN p) \cap SelectorKeys |-> p[k]]

OptionsOf(f) == IF f.op = "generateDiagram" THEN f.args.params ELSE f.args

SingleMove(f) == DOMAIN SelectorOf(f) = {"moveNumber"}

Range(f) == DOMAIN SelectorOf(f) = {"startMove", "endMove"}

DimensionsValid(f) ==
  /\ Has(OptionsOf(f), "width") => ~dimensionOutOfRange(OptionsOf(f).width)
  /\ Has(OptionsOf(f), "height") => ~dimensionOutOfRange(OptionsOf(f).height)

\* the nodes of a tree that carry a move of either side
MoveNodes(tree) ==
  {i \in 1..Len(tree.data) : "B" \in DOMAIN tree.data[i] \/ "W" \in DOMAIN tree.data[i]}

\* a diagram request whose game record passes the text checks and the
\* metadata extractor
ValidGame(f) ==
  /\ f.op = "handleGetSgfDiagram"
  /\ ~missingContent(f.args)
  /\ validateSgfFormat(trimmed(f.args.sgfContent))
  /\ ~parseSgfGameInfo(trimmed(f.args.sgfContent)).threw

GameTreeOf(f) == f.args.sgfContent.sabaki.gameTrees[1]

\* MoveCount and board size of the game a diagram call is about
MoveCountOf(f) ==
  IF f.op = "generateDiagram" THEN f.args.totalMoves
                              ELSE Cardinality(MoveNodes(GameTreeOf(f)))

\* a diagram call that reaches the selector resolver with a game it can draw
Resolvable(f) ==
  \/ f.op = "generateDiagram" /\ f.args.boardSize <= Fixed(MaxBoardSize)
  \/ ValidGame(f)

OutOfRangeMsgs == {MoveOutOfRangeMsg, StartOutOfRangeMsg, EndOutOfRangeMsg}

ExternalFailureMsgs == {LoadFailedMsg, RenderFailedMsg}

(***************************************************************************)
(* C1  Range selector round-trip: generateDiagram called with a range      *)
(* {startMove: a, endMove: b}, 0 <= a <= b <= totalMoves, and otherwise     *)
(* valid parameters does not reject the request and, when the renderer has *)
(* answered, returns movesCovered = b - a + 1.                             *)
(***************************************************************************)
C1_RangeRoundTrip ==
  \A f \in Frames :
    ( /\ f.op = "generateDiagram" /\ Done(f)
      /\ Range(f) /\ DimensionsValid(f)
      /\ f.args.boardSize <= Fixed(MaxBoardSize)
      /\ 0 <= f.args.params.startMove
      /\ f.args.params.startMove <= f.args.params.endMove
      /\ f.args.params.endMove <= f.args.totalMoves )
    => IF f.result.threw
         THEN f.result.error.message \in ExternalFailureMsgs
         ELSE f.result.value.movesCovered =
                f.args.params.endMove - f.args.params.startMove + 1

(***************************************************************************)
(* C2  Mutual exclusion: a call of handleGetSgfDiagram that carries        *)
(* moveNumber together with startMove or endMove has returned an error     *)
(* result (isError, no image, no metadata) by its first step, whatever the *)
(* values and whatever the SGF text.                                       *)
(***************************************************************************)
Conflicting(f) ==
  /\ f.op = "handleGetSgfDiagram"
  /\ Has(f.args, "moveNumber")
  /\ Has(f.args, "startMove") \/ Has(f.args, "endMove")

C2_MutualExclusion ==
  \A f \in Frames :
    Conflicting(f) =>
      /\ Done(f)
      /\ IsToolError(f.result)
      /\ ~HasImage(f.result)
      /\ ~Has(f.result, "metadata")
      /\ f.renders = 0

\* a conflicting request whose indices are each in range, rejected for the
\* conflict itself
C2_Witness ==
  \E f \in Frames :
    /\ Conflicting(f) /\ Done(f) /\ ValidGame(f)
    /\ DOMAIN SelectorOf(f) = SelectorKeys
    /\ \A k \in SelectorKeys : f.args[k] >= 1 /\ f.args[k] <= MoveCountOf(f)
    /\ f.args.startMove <= f.args.endMove
    /\ IsToolError(f.result)
    /\ ToolError(f.result).type = INVALID_PARAMETERS

C4_SingleMoveCovered ==
  \A f \in Frames :
    ( /\ f.op = "handleGetSgfDiagram" /\ Done(f) /\ SingleMove(f)
      /\ ~IsToolError(f.result) )
    => f.result.metadata.movesCovered = f.args.moveNumber + 1

(***************************************************************************)
(* C5  0-based indices: a diagram request for a game of N >= 1 moves whose *)
(* selector names existing moves by 0-based index (moveNumber in 0..N-1,   *)
(* or 0 <= startMove <= endMove <= N-1) is never rejected as out of range. *)
(***************************************************************************)
C5_ZeroBasedAccepted ==
  \A f \in Frames :
    ( /\ ValidGame(f) /\ Done(f) /\ IsToolError(f.result)
      /\ \/ SingleMove(f)
         \/ Range(f) /\ f.args.startMove <= f.args.endMove
      /\ \A k \in DOMAIN SelectorOf(f) :
           0 <= f.args[k] /\ f.args[k] <= MoveCountOf(f) - 1 )
    => ToolError(f.result).message \notin OutOfRangeMsgs

(***************************************************************************)
(* Specification of the metadata extractor, alone and through both tools   *)
(***************************************************************************)
IntegerSizes ==
  ((MinBoardSize - SizeMargin)..(MinBoardSize + SizeMargin))
    \cup {DefaultBoardSize}
    \cup ((MaxBoardSize - SizeMargin)..(MaxBoardSize + SizeMargin))

\* SZ values: integers around the limits, halves, and texts that are no number
SZTexts ==
  {IntToChars(s) : s \in IntegerSizes}
    \cup {IntToChars(s) \o <<".", "5">> : s \in {0, DefaultBoardSize, MaxBoardSize}}
    \cup {<<>>, <<"k">>, <<"1", "9", "k">>, <<" ", "1", "9">>}

GMTexts ==
  {<<"1">>, <<"2">>, <<"0">>, <<"1", ".", "5">>, <<>>, <<"k">>, <<"1", "k">>}

MetaRoots ==
  {sz @@ gm @@ ff @@ [PB |-> << <<"k">> >>] :
     sz \in Option("SZ", {<<v>> : v \in SZTexts}),
     gm \in Option("GM", {<<v>> : v \in GMTexts}),
     ff \in Option("FF", {<< <<"4">> >>})}

MetaContents ==
  {Str(GoodText, 0, Parsed(<<Chain(p, n)>>)) : p \in MetaRoots, n \in {0, 1}}

ParseContents == MetaContents \cup (BadContents \ {NotAString})

InfoArgs ==
  {[sgfContent |-> c] : c \in MetaContents \cup BadContents}
    \cup {EmptyObject, [sgfContent |-> GoodContent(1), extra |-> 1]}

MetaDiagramArgs == {[sgfContent |-> c] : c \in MetaContents}

NextMeta ==
  \E r \in DOMAIN reqs :
    \/ \E sgfContent \in ParseContents : ParseSgfGameInfo(r, sgfContent)
    \/ \E args \in InfoArgs : HandleGetSgfInfo(r, args)
    \/ \E args \in MetaDiagramArgs : HandleGetSgfDiagram(r, args)
    \/ Rendering(r)
    \/ Deliver(r)

SpecMeta == Init /\ [][NextMeta]_vars

(***************************************************************************)
(* Specification of the move counter                                       *)
(***************************************************************************)
NodeData == {EmptyObject, BMove, WMove, Setup("AB"), Setup("AW")}

ParentSeqs(n) ==
  {p \in [1..n -> 0..n] : p[1] = 0 /\ \A i \in 2..n : p[i] >= 1 /\ p[i] < i}

Trees ==
  UNION {{[data |-> d, parent |-> p] : d \in [1..n -> NodeData], p \in ParentSeqs(n)} :
           n \in 1..MaxNodes}

NextTree ==
  \E r \in DOMAIN reqs :
    \/ \E gameTree \in Trees : CountMoves(r, gameTree)
    \/ Deliver(r)

SpecTree == Init /\ [][NextTree]_vars

(***************************************************************************)
(* Vocabulary of the metadata properties                                   *)
(***************************************************************************)
MetaOps == {"parseSgfGameInfo", "handleGetSgfInfo", "handleGetSgfDiagram"}

ContentOf(f) == IF f.op = "parseSgfGameInfo" THEN f.args ELSE f.args.sgfContent

\* a call whose text reaches the metadata extractor and is parsed into a tree
Extracted(f) ==
  /\ f.op \in MetaOps
  /\ f.op # "parseSgfGameInfo" => Has(f.args, "sgfContent") /\ DOMAIN f.args = {"sgfContent"}
  /\ ContentOf(f).typeof = "string"
  /\ ContentOf(f).text = GoodText
  /\ byteLength(ContentOf(f)) <= MAX_FILE_SIZE
  /\ ~ContentOf(f).sabaki.threw
  /\ ContentOf(f).sabaki.gameTrees # <<>>

RootOf(f) == ContentOf(f).sabaki.gameTrees[1].data[Root]

RawOf(f, tag) == RootOf(f)[tag][1]

\* the root names an integer board size in decimal
IntegerSZ(f) ==
  Has(RootOf(f), "SZ") /\ \E s \in IntegerSizes : RawOf(f, "SZ") = IntToChars(s)

SZOf(f) == CHOOSE s \in IntegerSizes : RawOf(f, "SZ") = IntToChars(s)

\* the root says Go, or says nothing about the game
GoOrUnspecified(f) == Has(RootOf(f), "GM") => RawOf(f, "GM") = <<"1">>

\* the call has produced its payload: the parse result, the info response or
\* the diagram response
Succeeded(f) ==
  /\ Done(f)
  /\ ~Failed(f)

\* the call was not turned down by the metadata extractor
Accepted(f) ==
  IF f.op = "handleGetSgfDiagram"
    THEN Done(f) /\ Failed(f) => ErrorOf(f).message \in ExternalFailureMsgs
    ELSE Succeeded(f)

InfoData(f) == f.result.content[1].text.data

\* board size, game info and warnings of a successful result
BoardSizeIn(f) ==
  CASE f.op = "parseSgfGameInfo" -> f.result.value.boardSize
    [] f.op = "handleGetSgfInfo" -> InfoData(f).metadata.boardSize
    [] f.op = "handleGetSgfDiagram" -> f.result.metadata.boardSize

HasGameInfo(f) == f.op \in {"parseSgfGameInfo", "handleGetSgfInfo"}

GameInfoIn(f) ==
  IF f.op = "parseSgfGameInfo" THEN f.result.value.gameInfo ELSE InfoData(f).gameInfo

WarningsIn(f) ==
  LET w == IF f.op = "parseSgfGameInfo" THEN f.result.value.warnings
                                        ELSE InfoData(f).warnings
  IN  IF w.defined THEN {w.value[i] : i \in 1..Len(w.value)} ELSE {}

InvalidBoardSizeMsg == "Invalid board size: {0}. Must be between 1 and 361."

(***************************************************************************)
(* C6  Board-size boundary: for a root SZ that is the decimal text of an   *)
(* integer s, the metadata stage (alone and under both tools) turns the    *)
(* record down when s < 1 or s > 361, with INVALID_PARAMETERS when the     *)
(* game type is acceptable, and accepts it when 1 <= s <= 361.             *)
(***************************************************************************)
C6_BoardSizeBoundary ==
  \A f \in Frames :
    (Extracted(f) /\ IntegerSZ(f)) =>
      IF SZOf(f) < 1 \/ SZOf(f) > 361
        THEN /\ Done(f) /\ Failed(f)
             /\ GoOrUnspecified(f) =>
                  /\ ErrorOf(f).type = INVALID_PARAMETERS
                  /\ ErrorOf(f).message = InvalidBoardSizeMsg
        ELSE GoOrUnspecified(f) => Accepted(f)

\* a record that names the largest board is parsed
C6_Witness ==
  \E f \in Frames :
    /\ Extracted(f) /\ IntegerSZ(f) /\ SZOf(f) = 361
    /\ f.op = "parseSgfGameInfo" /\ Succeeded(f)
    /\ BoardSizeIn(f) = Fixed(361)

(***************************************************************************)
(* C7  Board-size invariant: the board size of every successful result     *)
(* (parse result, info metadata and gameInfo.SZ, diagram metadata) is an   *)
(* integer in 1..361.                                                      *)
(***************************************************************************)
ValidBoardSize(x) == isInteger(x) /\ x >= Fixed(1) /\ x <= Fixed(361)

C7_BoardSizeInvariant ==
  \A f \in Frames :
    (f.op \in MetaOps /\ Succeeded(f)) =>
      /\ ValidBoardSize(BoardSizeIn(f))
      /\ (HasGameInfo(f) /\ GameInfoIn(f).SZ.defined) =>
           ValidBoardSize(GameInfoIn(f).SZ.value)

(***************************************************************************)
(* C8  Board-size defaulting: a record without SZ that passes the other    *)
(* checks is parsed with boardSize 19 and the warning "Board size (SZ) not *)
(* specified, assuming 19x19"; a record with an integer SZ in 1..361 is    *)
(* parsed with that board size and without the warning.                    *)
(***************************************************************************)
C8_BoardSizeDefault ==
  \A f \in Frames :
    (Extracted(f) /\ HasGameInfo(f) /\ Done(f)) =>
      /\ (~Has(RootOf(f), "SZ") /\ GoOrUnspecified(f)) =>
           /\ Succeeded(f)
           /\ BoardSizeIn(f) = Fixed(19)
           /\ SZWarning \in WarningsIn(f)
      /\ (IntegerSZ(f) /\ Succeeded(f)) =>
           /\ BoardSizeIn(f) = Fixed(SZOf(f))
           /\ SZWarning \notin WarningsIn(f)

C8_Witness ==
  \E f \in Frames :
    /\ Extracted(f) /\ f.op = "handleGetSgfInfo" /\ Succeeded(f)
    /\ ~Has(RootOf(f), "SZ")
    /\ BoardSizeIn(f) = Fixed(19)
    /\ SZWarning \in WarningsIn(f)

(***************************************************************************)
(* C9  Game-type gate: a record whose root GM is present with a number     *)
(* other than 1 fails with UNSUPPORTED_GAME under both tools, and every    *)
(* successful result has gameInfo.GM absent or equal to 1.                 *)
(***************************************************************************)
Numeral(raw) ==
  raw # <<>> /\ \A i \in 1..Len(raw) : raw[i] \in Digits \cup {"."}

C9_GameTypeGate ==
  \A f \in Frames :
    (Extracted(f) /\ Done(f)) =>
      /\ (Has(RootOf(f), "GM") /\ Numeral(RawOf(f, "GM")) /\ RawOf(f, "GM") # <<"1">>) =>
           Failed(f) /\ ErrorOf(f).type = UNSUPPORTED_GAME
      /\ (HasGameInfo(f) /\ Succeeded(f) /\ GameInfoIn(f).GM.defined) =>
           GameInfoIn(f).GM.value = Fixed(1)

(***************************************************************************)
(* C10  Move count over the whole tree: countMoves returns the number of   *)
(* nodes of the tree, in any branch, that carry a B or a W property; nodes *)
(* with setup stones only add nothing.                                     *)
(***************************************************************************)
C10_CountsAllBranches ==
  \A f \in Frames :
    (f.op = "countMoves" /\ Done(f)) =>
      f.result.value = Cardinality(MoveNodes(f.args))

\* one move followed by two one-move branches is counted as 3
C10_Witness ==
  \E f \in Frames :
    /\ f.op = "countMoves" /\ Done(f)
    /\ f.args.parent = <<0, 1, 2, 2>>
    /\ \A i \in 2..4 : i \in MoveNodes(f.args)
    /\ 1 \notin MoveNodes(f.args)
    /\ f.result.value = 3

(***************************************************************************)
(* C11  Root node and the move count.  As claimed: the root adds 0 to      *)
(* totalMoves whatever properties it carries, so countMoves returns the    *)
(* number of move-carrying nodes among the root's proper descendants.      *)
(***************************************************************************)
C11_RootNeverCounted ==
  \A f \in Frames :
    (f.op = "countMoves" /\ Done(f)) =>
      f.result.value = Cardinality(MoveNodes(f.args) \ {Root})

\* the root's share of a finished count
RootShare(f) == f.result.value - Cardinality(MoveNodes(f.args) \ {Root})

(***************************************************************************)
(* C11 as amended: the root is counted like any other node; it adds 1 to   *)
(* totalMoves when it carries a B or a W property and 0 otherwise, setup   *)
(* properties included.                                                    *)
(***************************************************************************)
C11_RootCountedOnlyWithMove ==
  \A f \in Frames :
    (f.op = "countMoves" /\ Done(f)) =>
      RootShare(f) = IF DOMAIN f.args.data[Root] \cap {"B", "W"} # {} THEN 1 ELSE 0

\* a root with a black move, followed by a white move, counts 2
C11_Witness ==
  \E f \in Frames :
    /\ f.op = "countMoves" /\ Done(f)
    /\ f.args.data = <<BMove, WMove>>
    /\ f.result.value = 2

(***************************************************************************)
(* C12  Variation without moves: when the last k nodes of a counted tree   *)
(* form a branch that hangs off one of the other nodes and none of them    *)
(* carries a B or a W property, the count equals the count of the tree     *)
(* without that branch.                                                    *)
(***************************************************************************)
\* the last k nodes are one branch, attached to a node of the rest
IsVariation(tree, k) ==
  LET n == Len(tree.data) - k
  IN  /\ k >= 1 /\ n >= 1
      /\ tree.parent[n + 1] <= n
      /\ \A i \in (n + 2)..(n + k) : tree.parent[i] > n

withoutVariation(tree, k) ==
  LET n == Len(tree.data) - k
  IN  [data |-> SubSeq(tree.data, 1, n), parent |-> SubSeq(tree.parent, 1, n)]

C12_NoMoveVariationInvariance ==
  \A f \in Frames :
    (f.op = "countMoves" /\ Done(f)) =>
      \A k \in 1..(Len(f.args.data) - 1) :
        (IsVariation(f.args, k) /\ MoveNodes(f.args) \cap ((Len(f.args.data) - k + 1)..Len(f.args.data)) = {})
          => f.result.value = countMoves(withoutVariation(f.args, k))

\* a move with a reply, and beside the reply a variation that only sets up
\* stones: still 2
C12_Witness ==
  \E f \in Frames :
    /\ f.op = "countMoves" /\ Done(f)
    /\ f.args.parent = <<0, 1, 2, 2>>
    /\ f.args.data = <<EmptyObject, BMove, WMove, Setup("AB")>>
    /\ IsVariation(f.args, 1)
    /\ f.result.value = 2

(***************************************************************************)
(* Specification of the two tools at the operation boundary                *)
(***************************************************************************)
\* what the structural checks can tell apart: a well-formed record, one with
\* blanks around it, no closing or no opening parenthesis, brackets without
\* a property, no brackets, no SGF at all, a blank, nothing
ToolTexts ==
  {GoodText,
   <<" ">> \o GoodText \o <<" ">>,
   <<"(", ";", "A", "[", "]">>,
   <<";", "A", "[", "]", ")">>,
   <<"(", "[", "]", ")">>,
   <<"(", ")">>,
   <<"k">>,
   <<" ">>,
   <<>>}

\* a two-move game of Go
TwoMoves == Parsed(<<Chain(GoRoot, 2)>>)

\* records @sabaki/sgf may make of a text
ParseOutcomes ==
  {TwoMoves, ParseThrows, Parsed(<<>>),
   Parsed(<<Chain([FF |-> << <<"4">> >>, GM |-> << <<"2">> >>], 1)>>)}

\* byte counts around the limit of parseSgfGameInfo, and beyond the limit of
\* the content schema
ToolPads(text) ==
  {0, MAX_FILE_SIZE - Len(text), MAX_FILE_SIZE - Len(text) + 1, MaxSchemaLength}

ToolContents ==
  {Str(text, 0, o) : text \in ToolTexts, o \in {TwoMoves, ParseThrows}}
    \cup {Str(GoodText, 0, o) : o \in ParseOutcomes}
    \cup UNION {{Str(text, pad, TwoMoves) : pad \in ToolPads(text)} :
                  text \in {GoodText, <<" ">> \o GoodText \o <<" ">>, <<"k">>}}
    \cup {NotAString, NullValue, UndefinedValue}

\* a field no tool declares
ExtraField == Option("extraProperty", {1})

ToolInfoArgs ==
  {c @@ x : c \in Option("sgfContent", ToolContents), x \in ExtraField}
    \cup {NullValue, UndefinedValue, NotAString}

\* selectors: none, one move, a range, a reversed range, half a range, a move
\* together with a range
ToolSelectors ==
  {EmptyObject,
   [moveNumber |-> 1],
   [startMove |-> 1, endMove |-> 2],
   [startMove |-> 2, endMove |-> 1],
   [startMove |-> 1],
   [endMove |-> 1],
   [moveNumber |-> 1, startMove |-> 1, endMove |-> 2]}

ToolDiagramArgs ==
  {c @@ sel @@ x :
     c \in Option("sgfContent", ToolContents),
     sel \in ToolSelectors,
     x \in ExtraField}
    \cup {NullValue, UndefinedValue, NotAString}

NextTools ==
  \E r \in DOMAIN reqs :
    \/ \E args \in ToolInfoArgs : HandleGetSgfInfo(r, args)
    \/ \E args \in ToolDiagramArgs : HandleGetSgfDiagram(r, args)
    \/ Rendering(r)
    \/ Deliver(r)

SpecTools == Init /\ [][NextTools]_vars

(***************************************************************************)
(* Vocabulary of the boundary properties                                   *)
(***************************************************************************)
ToolOps == {"handleGetSgfInfo", "handleGetSgfDiagram"}

\* a finished call of one of the tools
Answered(f) == f.op \in ToolOps /\ Done(f)

\* the call was given an object whose sgfContent is a non-empty string
HasText(f) ==
  /\ f.op \in ToolOps
  /\ isObject(f.args)
  /\ Has(f.args, "sgfContent")
  /\ f.args.sgfContent.typeof = "string"
  /\ byteLength(f.args.sgfContent) > 0

TextOf(f) == f.args.sgfContent.text

\* the three structural requirements, on the text as it was given
WellFormed(text) ==
  /\ startsWith(trim(text), "(")
  /\ endsWith(trim(text), ")")
  /\ propertyPattern(text)

InfoFields == {"sgfContent"}

DiagramFields ==
  {"sgfContent", "moveNumber", "startMove", "endMove", "width", "height",
   "coordLabels", "moveNumbers", "theme", "format"}

DeclaredFields(f) == IF f.op = "handleGetSgfInfo" THEN InfoFields ELSE DiagramFields

ErrorKinds == SgfErrorType \cup {UNEXPECTED_ERROR}

(***************************************************************************)
(* C13  Error taxonomy at the operation boundary: whatever the arguments   *)
(* (no object, null, a wrong-typed or missing sgfContent) and whatever     *)
(* fails inside (parser, library load, renderer), a finished call of       *)
(* either tool has returned a result and has not thrown; a failing result  *)
(* carries one text entry with one error, whose kind is INVALID_FORMAT,    *)
(* INVALID_PARAMETERS, PARSING_ERROR, UNSUPPORTED_GAME, FILE_TOO_LARGE or   *)
(* the catch-all kind.                                                     *)
(***************************************************************************)
C13_ErrorTaxonomy ==
  \A f \in Frames :
    Answered(f) =>
      /\ ~Has(f.result, "threw")
      /\ Has(f.result, "content")
      /\ IsToolError(f.result) =>
           /\ Len(f.result.content) = 1
           /\ f.result.content[1].type = "text"
           /\ ~f.result.content[1].text.success
           /\ ToolError(f.result).type \in ErrorKinds

\* the renderer was called and rejected: the diagram tool answers with a
\* PARSING_ERROR result
C13_Witness ==
  \E f \in Frames :
    /\ f.op = "handleGetSgfDiagram" /\ Done(f)
    /\ f.renders = 1
    /\ IsToolError(f.result)
    /\ ToolError(f.result).type = PARSING_ERROR
    /\ ToolError(f.result).message = RenderFailedMsg

(***************************************************************************)
(* C14  No partial success: a finished call of either tool has returned    *)
(* either an error result (isError, one text entry holding success: false  *)
(* and the error, nothing else) or the full payload without an error       *)
(* (diagram: one image entry and metadata with mimeType, width, height,    *)
(* movesCovered, boardSize, parameters; info: one text entry holding       *)
(* success: true, gameInfo and metadata).                                  *)
(***************************************************************************)
IsErrorOnly(res) ==
  /\ DOMAIN res = {"content", "isError"}
  /\ res.isError
  /\ Len(res.content) = 1
  /\ res.content[1].type = "text"
  /\ DOMAIN res.content[1].text = {"success", "error"}
  /\ ~res.content[1].text.success

IsFullDiagram(res) ==
  /\ DOMAIN res = {"content", "metadata"}
  /\ Len(res.content) = 1
  /\ res.content[1].type = "image"
  /\ DOMAIN res.metadata =
       {"mimeType", "width", "height", "movesCovered", "boardSize", "parameters"}
  /\ res.content[1].mimeType = res.metadata.mimeType

IsFullInfo(res) ==
  /\ DOMAIN res = {"content"}
  /\ Len(res.content) = 1
  /\ res.content[1].type = "text"
  /\ DOMAIN res.content[1].text = {"success", "data"}
  /\ res.content[1].text.success
  /\ {"gameInfo", "metadata"} \subseteq DOMAIN res.content[1].text.data
  /\ DOMAIN res.content[1].text.data.metadata =
       {"totalMoves", "boardSize", "hasValidStructure"}

C14_NoPartialSuccess ==
  \A f \in Frames :
    Answered(f) =>
      \/ IsErrorOnly(f.result)
      \/ f.op = "handleGetSgfDiagram" /\ IsFullDiagram(f.result)
      \/ f.op = "handleGetSgfInfo" /\ IsFullInfo(f.result)

\* a diagram request that went through the renderer and came back with the
\* image and all of its metadata
C14_Witness ==
  \E f \in Frames :
    /\ f.op = "handleGetSgfDiagram" /\ Done(f)
    /\ f.renders = 1
    /\ IsFullDiagram(f.result)
    /\ f.result.metadata.boardSize = Fixed(19)

(***************************************************************************)
(* C15  Size ceiling: a request that holds nothing but a well-formed       *)
(* sgfContent of more than MAX_FILE_SIZE bytes makes both tools fail with  *)
(* FILE_TOO_LARGE, and no content of at most MAX_FILE_SIZE bytes is turned *)
(* down as too large.                                                      *)
(***************************************************************************)
C15_SizeCeiling ==
  \A f \in Frames :
    ( /\ Answered(f) /\ HasText(f)
      /\ WellFormed(TextOf(f))
      /\ DOMAIN f.args = {"sgfContent"} )
    => IF byteLength(f.args.sgfContent) > MAX_FILE_SIZE
         THEN Failed(f) /\ ErrorOf(f).type = FILE_TOO_LARGE
         ELSE ~(Failed(f) /\ ErrorOf(f).type = FILE_TOO_LARGE)

(***************************************************************************)
(* C16  Structural pre-check: a request that holds nothing but a           *)
(* sgfContent within the size limit that, once trimmed, is not empty and   *)
(* does not begin with "(", or does not end with ")", or holds no property *)
(* occurrence, makes both tools fail with INVALID_FORMAT.                  *)
(***************************************************************************)
C16_StructuralPreCheck ==
  \A f \in Frames :
    ( /\ Answered(f) /\ HasText(f)
      /\ DOMAIN f.args = {"sgfContent"}
      /\ trim(TextOf(f)) # <<>>
      /\ byteLength(f.args.sgfContent) <= MAX_FILE_SIZE
      /\ ~WellFormed(TextOf(f)) )
    => Failed(f) /\ ErrorOf(f).type = INVALID_FORMAT

(***************************************************************************)
(* C17  Closed schema: a call of either tool whose argument object holds a *)
(* field the tool does not declare ends in an error result, also when the  *)
(* declared fields make a valid request (a well-formed text within the     *)
(* size limit, no selector).                                               *)
(***************************************************************************)
C17_ClosedSchema ==
  \A f \in Frames :
    ( /\ Answered(f) /\ HasText(f)
      /\ WellFormed(TextOf(f))
      /\ byteLength(f.args.sgfContent) <= MAX_FILE_SIZE
      /\ DOMAIN SelectorOf(f) = {}
      /\ DOMAIN f.args \ DeclaredFields(f) # {} )
    => Failed(f)

(***************************************************************************)
(* C18  Statelessness: no step of either tool writes module-level state;   *)
(* the renderer reference sgfToImage is the module-level variable of the   *)
(* program, so no step changes it.                                         *)
(***************************************************************************)
C18_NoProcessWideState == [][sgfToImage' = sgfToImage]_vars

(***************************************************************************)
(* C20  Malformed selectors never reach the parser: a diagram request with *)
(* a well-formed text within the size limit and no undeclared field,       *)
(* whose selector names a move together with a range, half a range, or a range   *)
(* with startMove > endMove, fails with INVALID_PARAMETERS and the message *)
(* of that selector rule, whatever the parser and the metadata checks      *)
(* would say of the text.                                                  *)
(***************************************************************************)
MalformedSelector(args) ==
  \/ Has(args, "moveNumber") /\ (Has(args, "startMove") \/ Has(args, "endMove"))
  \/ Has(args, "startMove") /\ ~Has(args, "endMove")
  \/ Has(args, "endMove") /\ ~Has(args, "startMove")
  \/ Has(args, "startMove") /\ Has(args, "endMove") /\ args.startMove > args.endMove

SelectorRuleMsgs ==
  {"Cannot specify both moveNumber and move range (startMove/endMove). Use one or the other.",
   "startMove requires endMove to be specified for range display.",
   "endMove requires startMove to be specified for range display.",
   StartAfterEndMsg}

C20_SelectorBeforeParser ==
  \A f \in Frames :
    ( /\ Answered(f) /\ HasText(f)
      /\ f.op = "handleGetSgfDiagram"
      /\ WellFormed(TextOf(f))
      /\ byteLength(f.args.sgfContent) <= MAX_FILE_SIZE
      /\ DOMAIN f.args \subseteq DeclaredFields(f)
      /\ MalformedSelector(f.args) )
    => /\ Failed(f)
       /\ ErrorOf(f).type = INVALID_PARAMETERS
       /\ ErrorOf(f).message \in SelectorRuleMsgs

(***************************************************************************)
(* C21  Rule order of the selector resolver: a call of generateDiagram     *)
(* with one of the three selector shapes that violates several of the      *)
(* rules (1 board size over the maximum, 4 startMove > endMove, 5 an index *)
(* outside 1..totalMoves, 6 width or height outside 100..2000) fails with  *)
(* the message of the lowest-numbered rule it violates; a reversed range   *)
(* whose indices are outside the window is reported as reversed.           *)
(***************************************************************************)
\* the messages of the lowest-numbered rule the call violates, {} if none
FirstRuleMsgs(f) ==
  LET p == f.args.params
      N == f.args.totalMoves
  IN  IF f.args.boardSize > Fixed(MaxBoardSize) THEN {BoardTooLargeMsg}
      ELSE IF Range(f) /\ p.startMove > p.endMove THEN {StartAfterEndMsg}
      ELSE IF \E k \in DOMAIN SelectorOf(f) : p[k] < 1 \/ p[k] > N THEN OutOfRangeMsgs
      ELSE IF ~DimensionsValid(f) THEN {WidthMsg, HeightMsg}
      ELSE {}

C21_RuleOrder ==
  \A f \in Frames :
    ( /\ f.op = "generateDiagram" /\ Done(f)
      /\ SingleMove(f) \/ Range(f) \/ DOMAIN SelectorOf(f) = {}
      /\ FirstRuleMsgs(f) # {} )
    => /\ f.result.threw
       /\ f.result.error.type = INVALID_PARAMETERS
       /\ f.result.error.message \in FirstRuleMsgs(f)

(***************************************************************************)
(* C22  Selector shapes of the resolver: a call of generateDiagram whose   *)
(* selector has moveNumber together with startMove or endMove, or exactly  *)
(* one of startMove and endMove, and that breaks no other rule, ends with  *)
(* INVALID_PARAMETERS and without a renderer call.                         *)
(***************************************************************************)
C22_ResolverShapes ==
  \A f \in Frames :
    ( /\ f.op = "generateDiagram" /\ Done(f)
      /\ MalformedSelector(f.args.params)
      /\ f.args.boardSize <= Fixed(MaxBoardSize)
      /\ DimensionsValid(f)
      /\ \A k \in DOMAIN SelectorOf(f) :
           f.args.params[k] >= 1 /\ f.args.params[k] <= f.args.totalMoves
      /\ Range(f) => f.args.params.startMove <= f.args.params.endMove )
    => /\ f.result.threw
       /\ f.result.error.type = INVALID_PARAMETERS
       /\ f.renders = 0

(***************************************************************************)
(* Specification of the rendering options                                  *)
(***************************************************************************)
\* widths and heights at and next to the limits
DimensionValues == {MinDimension - 1, MinDimension, MaxDimension, MaxDimension + 1}

RenderingOptions ==
  {w @@ h @@ t @@ fm @@ cl @@ mn :
     w \in Option("width", DimensionValues),
     h \in Option("height", DimensionValues),
     t \in Option("theme", {"modern"}),
     fm \in Option("format", {"svg"}),
     cl \in Option("coordLabels", {FALSE}),
     mn \in Option("moveNumbers", {FALSE})}

OptionDiagramArgs ==
  {[sgfContent |-> GoodContent(1)] @@ o : o \in RenderingOptions}

OptionCalls ==
  {[sgfContent |-> GoodContent(1), params |-> o, totalMoves |-> 1,
    boardSize |-> Fixed(DefaultBoardSize)] : o \in RenderingOptions}

NextOptions ==
  \E r \in DOMAIN reqs :
    \/ \E args \in OptionDiagramArgs : HandleGetSgfDiagram(r, args)
    \/ \E call \in OptionCalls : GenerateDiagram(r, call)
    \/ Rendering(r)
    \/ Deliver(r)

SpecOptions == Init /\ [][NextOptions]_vars

(***************************************************************************)
(* Vocabulary of the option properties                                     *)
(***************************************************************************)
DiagramOps == {"handleGetSgfDiagram", "generateDiagram"}

\* a finished diagram call that came back with an image
Drawn(f) == f.op \in DiagramOps /\ Done(f) /\ ~Failed(f)

\* mimeType, width, height, movesCovered, boardSize of a drawn diagram
DiagramData(f) ==
  IF f.op = "handleGetSgfDiagram" THEN f.result.metadata ELSE f.result.value

Supplied(f, key) == Has(OptionsOf(f), key)

BadWidth(f) == Supplied(f, "width") /\ (OptionsOf(f).width < 100 \/ OptionsOf(f).width > 2000)

BadHeight(f) == Supplied(f, "height") /\ (OptionsOf(f).height < 100 \/ OptionsOf(f).height > 2000)

(***************************************************************************)
(* C23  Dimension bounds: a diagram request that is otherwise valid fails  *)
(* with INVALID_PARAMETERS and the message of the offending field exactly  *)
(* when a supplied width or height is outside 100..2000, each checked on   *)
(* its own; 100 and 2000 are accepted, and a drawn diagram reports the     *)
(* supplied width and height.                                              *)
(***************************************************************************)
C23_DimensionBounds ==
  \A f \in Frames :
    (f.op \in DiagramOps /\ Done(f)) =>
      /\ BadWidth(f) =>
           /\ Failed(f)
           /\ ErrorOf(f).type = INVALID_PARAMETERS
           /\ ErrorOf(f).message = WidthMsg
           /\ ErrorOf(f).nums = <<OptionsOf(f).width>>
      /\ (BadHeight(f) /\ ~BadWidth(f)) =>
           /\ Failed(f)
           /\ ErrorOf(f).type = INVALID_PARAMETERS
           /\ ErrorOf(f).message = HeightMsg
           /\ ErrorOf(f).nums = <<OptionsOf(f).height>>
      /\ (~BadWidth(f) /\ ~BadHeight(f) /\ Failed(f)) =>
           ErrorOf(f).message \in ExternalFailureMsgs
      /\ Drawn(f) =>
           /\ Supplied(f, "width") => DiagramData(f).width = OptionsOf(f).width
           /\ Supplied(f, "height") => DiagramData(f).height = OptionsOf(f).height

\* both limits at once: width 100, height 2000, drawn as asked
C23_Witness ==
  \E f \in Frames :
    /\ f.op = "handleGetSgfDiagram" /\ Drawn(f)
    /\ Supplied(f, "width") /\ OptionsOf(f).width = 100
    /\ Supplied(f, "height") /\ OptionsOf(f).height = 2000
    /\ DiagramData(f).width = 100
    /\ DiagramData(f).height = 2000

(***************************************************************************)
(* C24  Defaulting of rendering options: in every drawn diagram each       *)
(* option the caller left unset has its default (width 600, height 600,    *)
(* theme classic, format png, coordinate labels on, move numbers on),      *)
(* whatever the other options are; a supplied option keeps its value; the  *)
(* mimeType is image/svg+xml for svg and image/png otherwise; width and    *)
(* height of the result are those handed to the renderer.                  *)
(***************************************************************************)
Effective(f, key, dflt) == IF Supplied(f, key) THEN OptionsOf(f)[key] ELSE dflt

C24_OptionDefaults ==
  \A f \in Frames :
    Drawn(f) =>
      /\ f.options.width = Effective(f, "width", 600)
      /\ f.options.height = Effective(f, "height", 600)
      /\ f.options.theme = Effective(f, "theme", "classic")
      /\ f.options.coordLabels = Effective(f, "coordLabels", TRUE)
      /\ f.options.moveNumbers = Effective(f, "moveNumbers", TRUE)
      /\ DiagramData(f).mimeType =
           IF Effective(f, "format", "png") = "svg" THEN "image/svg+xml" ELSE "image/png"
      /\ f.op = "handleGetSgfDiagram" =>
           f.result.metadata.parameters.format = Effective(f, "format", "png")
      /\ DiagramData(f).width = f.options.width
      /\ DiagramData(f).height = f.options.height

\* only the width is supplied: the height and everything else are defaults
C24_Witness ==
  \E f \in Frames :
    /\ f.op = "handleGetSgfDiagram" /\ Drawn(f)
    /\ DOMAIN f.args = {"sgfContent", "width"}
    /\ f.args.width = 100
    /\ DiagramData(f).width = 100
    /\ DiagramData(f).height = 600
    /\ f.options.theme = "classic"
    /\ DiagramData(f).mimeType = "image/png"

(***************************************************************************)
(* Specification of the numeric root tags                                  *)
(***************************************************************************)
\* per numeric tag: a value that is a number, and values that are none
NumericTexts(tag) ==
  {IF tag = "GM" THEN <<"1">> ELSE IF tag = "SZ" THEN <<"9">> ELSE <<"4">>,
   <<"k">>, <<>>}

NumericRoots ==
  {sz @@ ha @@ km @@ tm @@ ff @@ gm @@ st :
     sz \in Option("SZ", {<<v>> : v \in NumericTexts("SZ")}),
     ha \in Option("HA", {<<v>> : v \in {<<"4">>, <<"k">>}}),
     km \in Option("KM", {<<v>> : v \in {<<"-">>}}),
     tm \in Option("TM", {<<v>> : v \in {<<".">>}}),
     ff \in Option("FF", {<<v>> : v \in NumericTexts("FF")}),
     gm \in Option("GM", {<<v>> : v \in NumericTexts("GM")}),
     st \in Option("ST", {<<v>> : v \in {<<"k", "2">>}})}

NumericContents == {Str(GoodText, 0, Parsed(<<Chain(p, 1)>>)) : p \in NumericRoots}

NextNumeric ==
  \E r \in DOMAIN reqs :
    \/ \E sgfContent \in NumericContents : ParseSgfGameInfo(r, sgfContent)
    \/ Deliver(r)

SpecNumeric == Init /\ [][NextNumeric]_vars

(***************************************************************************)
(* Vocabulary of the numeric-tag properties                                *)
(***************************************************************************)
\* the record without one tag of its root
withoutTag(sgfContent, tag) ==
  LET tree == sgfContent.sabaki.gameTrees[1]
      root == tree.data[Root]
      rest == [k \in (DOMAIN root) \ {tag} |-> root[k]]
  IN  [sgfContent EXCEPT
         !.sabaki = Parsed(<<[tree EXCEPT !.data = <<rest>> \o Tail(tree.data)]>>)]

\* the root has the tag, with a first value that parseFloat makes no number of
Unparseable(f, tag) ==
  /\ Has(RootOf(f), tag)
  /\ RawOf(f, tag) = <<>> \/ isNaN(parseFloat(RawOf(f, tag)))

(***************************************************************************)
(* C25  Unparseable numeric tags.  As claimed: for each of SZ, HA, KM, TM, *)
(* FF, GM, ST, a root value that is no number makes parseSgfGameInfo       *)
(* return (or throw) what it does for the record without that tag.         *)
(***************************************************************************)
C25_UnparseableAsAbsent ==
  \A f \in Frames :
    (f.op = "parseSgfGameInfo" /\ Done(f)) =>
      \A tag \in NumericTags :
        Unparseable(f, tag) => f.result = parseSgfGameInfo(withoutTag(f.args, tag))

(***************************************************************************)
(* C25 as amended: the above holds for SZ, HA, KM, TM, FF and ST, and for  *)
(* an empty GM; a GM value that is not empty and is no number makes the    *)
(* call fail with UNSUPPORTED_GAME.                                        *)
(***************************************************************************)
C25_UnparseableAsAbsentButGM ==
  \A f \in Frames :
    (f.op = "parseSgfGameInfo" /\ Done(f)) =>
      /\ \A tag \in NumericTags :
           (Unparseable(f, tag) /\ (tag = "GM" => RawOf(f, "GM") = <<>>)) =>
             f.result = parseSgfGameInfo(withoutTag(f.args, tag))
      /\ (Unparseable(f, "GM") /\ RawOf(f, "GM") # <<>>) =>
           f.result.threw /\ f.result.error.type = UNSUPPORTED_GAME

\* SZ[k] and FF[k]: parsed as a 19x19 record with both warnings
C25_Witness ==
  \E f \in Frames :
    /\ f.op = "parseSgfGameInfo" /\ Done(f)
    /\ Unparseable(f, "SZ") /\ RawOf(f, "SZ") = <<"k">>
    /\ Unparseable(f, "FF") /\ RawOf(f, "FF") = <<"k">>
    /\ ~f.result.threw
    /\ f.result.value.boardSize = Fixed(19)
    /\ ~f.result.value.gameInfo.SZ.defined
    /\ f.result.value.warnings = Some(<<SZWarning, FFWarning>>)

(***************************************************************************)
(* The schemas of the diagram parameters                                   *)
(***************************************************************************)
MaxSchemaIndex == 1000

SchemaFields ==
  SelectorKeys \cup {"width", "height", "coordLabels", "moveNumbers", "theme",
                     "format", "maxBoardSize"}

\* .min(0, ...).max(1000, ...) of one selector field
indexIssues(data, key, name) ==
  IF ~Has(data, key) THEN {}
  ELSE IF data[key] < 0 THEN {<<key, name \o " must be non-negative">>}
  ELSE IF data[key] > MaxSchemaIndex THEN {<<key, name \o " too large (max 1000)">>}
  ELSE {}

\* .min(100, ...).max(2000, ...) of width and height
dimensionIssues(data, key, name) ==
  IF ~Has(data, key) THEN {}
  ELSE IF data[key] < MinDimension THEN {<<key, name \o " must be at least 100 pixels">>}
  ELSE IF data[key] > MaxDimension THEN {<<key, name \o " must be at most 2000 pixels">>}
  ELSE {}

\* variant: the range refinement asks for start < end
rangeOrderIssues_Strict(data) ==
  IF Has(data, "startMove") /\ Has(data, "endMove") /\ ~(data.startMove < data.endMove)
    THEN {<<"startMove", "Start move must be less than or equal to end move">>}
    ELSE {}

rangeOrderIssues(data) ==
  IF Has(data, "startMove") /\ Has(data, "endMove") /\ ~(data.startMove <= data.endMove)
    THEN {<<"startMove", "Start move must be less than or equal to end move">>}
    ELSE {}

\* the three .refine() steps, each run on the parsed object
refinementIssues(data) ==
  rangeOrderIssues(data)
    \cup (IF Has(data, "moveNumber") /\ (Has(data, "startMove") \/ Has(data, "endMove"))
            THEN {<<"moveNumber",
                    "Cannot specify both moveNumber and move range (startMove/endMove)">>}
            ELSE {})
    \cup (IF Has(data, "startMove") # Has(data, "endMove")
            THEN {<<"startMove",
                    "Both startMove and endMove must be specified for move range">>}
            ELSE {})

\* the object schema before its refinements; .strict() names the unknown keys
objectIssues(data, fields) ==
  indexIssues(data, "moveNumber", "Move number")
    \cup indexIssues(data, "startMove", "Start move")
    \cup indexIssues(data, "endMove", "End move")
    \cup dimensionIssues(data, "width", "Width")
    \cup dimensionIssues(data, "height", "Height")
    \cup (IF (DOMAIN data) \ fields # {}
            THEN {<<"", "Unrecognized key(s) in object">>} ELSE {})

safeParseResult(issues) == [success |-> issues = {}, issues |-> issues]

diagramParametersSchema(data) ==
  safeParseResult(objectIssues(data, SchemaFields) \cup refinementIssues(data))

\* sgfContent is parsed by sgfContentSchema; a value that is no string aborts
\* the object, and the refinements are then not run
getSgfDiagramArgsSchema(data) ==
  LET content == IF Has(data, "sgfContent") THEN data.sgfContent ELSE UndefinedValue
      c       == validateSgfContent(content)
      own     == IF c.threw THEN {<<"sgfContent", c.error.message>>} ELSE {}
      fields  == objectIssues(data, SchemaFields \cup {"sgfContent"})
  IN  safeParseResult(IF content.typeof # "string" THEN own \cup fields
                      ELSE own \cup fields \cup refinementIssues(data))

\* schema.safeParse(data): never throws
SafeParse(r, schema, data) ==
  /\ Idle(r)
  /\ reqs' = [reqs EXCEPT ![r] =
                [IdleFrame EXCEPT
                   !.op = schema, !.args = data, !.pc = "done",
                   !.result = Return(IF schema = "diagramParametersSchema"
                                       THEN diagramParametersSchema(data)
                                       ELSE getSgfDiagramArgsSchema(data))]]
  /\ UNCHANGED sgfToImage

(***************************************************************************)
(* Specification of the schemas                                            *)
(***************************************************************************)
SchemaSelectors == Objects(SelectorKeys, (0..MaxIndex) \cup {-1, MaxSchemaIndex + 1})

SchemaParameters ==
  {sel @@ w @@ x :
     sel \in SchemaSelectors,
     w \in Option("width", {MinDimension - 1, MinDimension}),
     x \in Option("extra", {1})}

SchemaArgs ==
  {c @@ p : c \in Option("sgfContent", {GoodContent(MaxMoves), NotAString}),
            p \in SchemaParameters}

NextSchema ==
  \E r \in DOMAIN reqs :
    \/ \E data \in SchemaParameters : SafeParse(r, "diagramParametersSchema", data)
    \/ \E data \in SchemaArgs : SafeParse(r, "getSgfDiagramArgsSchema", data)
    \/ Deliver(r)

SpecSchema == Init /\ [][NextSchema]_vars

(***************************************************************************)
(* Vocabulary of the schema properties                                     *)
(***************************************************************************)
SchemaOps == {"diagramParametersSchema", "getSgfDiagramArgsSchema"}

\* the selector fields of the parsed object
SchemaSelectorOf(f) ==
  [k \in (DOMAIN f.args) \cap SelectorKeys |-> f.args[k]]

\* the parsed object is a selector and nothing else (with valid content, for
\* the schema of the tool arguments)
SelectorOnly(f) ==
  IF f.op = "diagramParametersSchema" THEN DOMAIN f.args \subseteq SelectorKeys
  ELSE /\ (DOMAIN f.args) \ SelectorKeys = {"sgfContent"}
       /\ ~validateSgfContent(f.args.sgfContent).threw

\* a move count of the bound for which no supplied index exceeds the count
CountsFor(f) ==
  {N \in 0..MaxMoves : \A k \in DOMAIN SchemaSelectorOf(f) : f.args[k] <= N}

ResolverAccepts(selector, N) ==
  ~validateDiagramParameters(selector, N, Fixed(DefaultBoardSize)).threw

(***************************************************************************)
(* C26  Schema-level and resolver-level selector rules are identical: for  *)
(* every selector and every move count N with all supplied indices <= N,   *)
(* each of the two schemas accepts the selector exactly when               *)
(* validateDiagramParameters accepts it for N.                             *)
(***************************************************************************)
C26_SchemaMatchesResolver ==
  \A f \in Frames :
    (f.op \in SchemaOps /\ Done(f) /\ SelectorOnly(f)) =>
      \A N \in CountsFor(f) :
        f.result.value.success <=> ResolverAccepts(SchemaSelectorOf(f), N)

(***************************************************************************)
(* Vocabulary of the rendering properties                                  *)
(***************************************************************************)
\* generateDiagram has been entered for the request
Entered(f) == f.call # <<>>

\* the renderer has been invoked for the request
Invoked(f) == f.renders >= 1

ValidationOf(f) ==
  validateDiagramParameters(f.call.params, f.call.totalMoves, f.call.boardSize)

C28_ValidationFirst ==
  \A f \in Frames :
    Entered(f) =>
      /\ ValidationOf(f).threw =>
           /\ f.loads = 0 /\ f.renders = 0 /\ f.renderer = Null
           /\ Done(f) /\ Failed(f) /\ ErrorOf(f).type = INVALID_PARAMETERS
           /\ ErrorOf(f).message = ValidationOf(f).error.message
      /\ f.pc \in {"importing", "initialized", "rendering"} => ~ValidationOf(f).threw
      /\ f.loads <= 1 /\ f.renders <= 1

\* a width below the minimum ends the call while the library is not loaded
C28_Witness ==
  \E f \in Frames :
    /\ f.op = "generateDiagram" /\ Done(f) /\ Entered(f)
    /\ ValidationOf(f).threw /\ ValidationOf(f).error.message = WidthMsg
    /\ sgfToImage = Null
    /\ f.loads = 0 /\ f.renders = 0

(***************************************************************************)
(* Specification of concurrent calls of generateDiagram                    *)
(***************************************************************************)
\* the calls in flight: each is suspended at its awaits, where any other runs
Calls == 1..MaxCalls

InitConcurrent ==
  /\ sgfToImage = Null
  /\ reqs = [r \in Calls |-> IdleFrame]

ConcurrentCalls ==
  {[sgfContent |-> GoodContent(n), params |-> p, totalMoves |-> n,
    boardSize |-> Fixed(DefaultBoardSize)] :
     n \in {MaxMoves},
     p \in {[moveNumber |-> 1],
            [startMove |-> 1, endMove |-> MaxMoves, format |-> "svg"],
            [width |-> MinDimension, height |-> MaxDimension],
            [width |-> MinDimension - 1]}}

\* the import resolves to a module with a default function, to one with only
\* convertSgfToImage, to one with no renderer, or it throws
ConcurrentLoadOutcomes ==
  {Module("function", FALSE, FALSE), Module("other", TRUE, FALSE),
   Module("absent", FALSE, FALSE), ImportThrows}

NextConcurrent ==
  \E r \in DOMAIN reqs :
    \/ \E call \in ConcurrentCalls : GenerateDiagram(r, call)
    \/ \E imported \in ConcurrentLoadOutcomes : ImportSettles(r, imported)
    \/ CallRenderer(r)
    \/ \E resolved \in BOOLEAN : RendererSettles(r, resolved)
    \/ Deliver(r)

SpecConcurrent == InitConcurrent /\ [][NextConcurrent]_vars

(***************************************************************************)
(* Vocabulary of the concurrency properties                                *)
(***************************************************************************)
LoadFailure == Throw(Err(PARSING_ERROR, LoadFailedMsg, <<>>))

RenderFailure == Throw(Err(PARSING_ERROR, RenderFailedMsg, <<>>))

\* what a call of generateDiagram can end with when no other call is in
\* flight: its validation error, or else the failure of the load or of the
\* renderer, or the diagram of its own parameters
OutcomesAlone(call) ==
  LET v == validateDiagramParameters(call.params, call.totalMoves, call.boardSize)
  IN  IF v.threw THEN {Throw(v.error)}
      ELSE {LoadFailure, RenderFailure,
            Return(diagramResult(call.params,
                                 rendererOptions(call.sgfContent, call.params),
                                 call.totalMoves, call.boardSize))}

Functions == {"default", "convertSgfToImage", "renderDiagram"}

(***************************************************************************)
(* C29  Noninterference: under every interleaving of concurrent calls of   *)
(* generateDiagram at their awaits, a finished call has an outcome it can  *)
(* have alone, and the options it handed to the renderer are its own.      *)
(***************************************************************************)
C29_Noninterference ==
  \A f \in Frames :
    f.op = "generateDiagram" =>
      /\ Done(f) => f.result \in OutcomesAlone(f.call)
      /\ Invoked(f) => f.options = rendererOptions(f.call.sgfContent, f.call.params)

\* two calls that both started before the library was loaded have finished
\* with different diagrams
C29_Witness ==
  \E q, r \in DOMAIN reqs :
    /\ q # r
    /\ Done(reqs[q]) /\ Done(reqs[r])
    /\ reqs[q].loads = 1 /\ reqs[r].loads = 1
    /\ ~reqs[q].result.threw /\ ~reqs[r].result.threw
    /\ reqs[q].result.value.mimeType = "image/png"
    /\ reqs[r].result.value.mimeType = "image/svg+xml"
    /\ reqs[q].result.value.movesCovered # reqs[r].result.value.movesCovered

(***************************************************************************)
(* C30  Lazy initialisation is monotonic: sgfToImage starts null; a step   *)
(* changes it only to a function and never back to null; a load that fails *)
(* leaves it as it was (null if it was null) and ends the request with     *)
(* PARSING_ERROR; a call that begins while it is null attempts the load;   *)
(* a call past initializeSgfToImage holds a renderer that is a function.   *)
(***************************************************************************)
C30_LazyInitMonotonic ==
  /\ sgfToImage = Null
  /\ [][/\ sgfToImage' # sgfToImage => sgfToImage' \in Functions
        /\ sgfToImage # Null => sgfToImage' # Null
        /\ \A r \in DOMAIN reqs :
             /\ (reqs[r].pc = "importing" /\ reqs'[r].pc = "done") =>
                  /\ sgfToImage' = sgfToImage
                  /\ reqs'[r].result = LoadFailure
             /\ (reqs[r].pc = "idle" /\ reqs'[r].pc \notin {"idle", "done"}) =>
                  IF sgfToImage = Null
                    THEN reqs'[r].pc = "importing" /\ reqs'[r].loads = 1
                    ELSE reqs'[r].pc = "initialized" /\ reqs'[r].loads = 0
             /\ reqs'[r].pc \in {"initialized", "rendering"} =>
                  reqs'[r].renderer \in Functions
       ]_vars

\* a load has failed, the reference is still null, and another call is
\* loading again
C30_Witness ==
  \E q, r \in DOMAIN reqs :
    /\ sgfToImage = Null
    /\ Done(reqs[q]) /\ reqs[q].loads = 1 /\ reqs[q].result = LoadFailure
    /\ reqs[r].pc = "importing" /\ reqs[r].loads = 1

====
